---- MODULE Spec2Model ----
(***************************************************************************)
(* The Miniconf MQTT request/response correlation engine of                *)
(* src/miniconf.py: class Miniconf (constructor, _handle_response,         *)
(* command) running on a single asyncio event loop.                        *)
(*                                                                         *)
(* Python integers are unbounded; they are modelled as big-endian          *)
(* sequences of base-256 digits without leading zeros (0 is <<>>), so that *)
(* request_id.to_bytes(4, 'big') and int.from_bytes(.., 'big') are         *)
(* computed digit by digit and 2^32 is representable.                      *)
(***************************************************************************)
EXTENDS Integers, Sequences, FiniteSets, TLC

\* ------------------------------------------------------------- bounds
\* Number of caller tasks that may issue command() concurrently.
NumTasks == 2
\* Total number of command() calls started in one behaviour.
MaxCalls == 2

\* ------------------------------------------------- program constants
\* request_id.to_bytes(4, 'big'): width of the correlation data.
CorrelationLen == 4
\* One byte holds the values 0 .. ByteMax.
ByteMax == 255

Tasks == 1 .. NumTasks

\* ------------------------------------------------ Python int as digits
Zero == << >>

\* self.request_id = 0
InitialRequestId == Zero

\* (variant) the counter not advanced
IncStuck(n) == n

RECURSIVE Inc(_)
\* self.request_id += 1 on an unbounded Python int
Inc(n) ==
    IF n = << >> THEN <<1>>
    ELSE IF n[Len(n)] < ByteMax
         THEN [n EXCEPT ![Len(n)] = @ + 1]
         ELSE Inc(SubSeq(n, 1, Len(n) - 1)) \o <<0>>

\* request_id.to_bytes(4, 'big') raises OverflowError ("int too big to
\* convert") when the value needs more than `length` bytes.
Fits(n, length) == Len(n) <= length

\* request_id.to_bytes(length, 'big') when it fits: left-padded with zeros.
ToBytes(n, length) == [i \in 1 .. (length - Len(n)) |-> 0] \o n

\* (variant) int.from_bytes(b, 'little')
FromBytesLittle(b) ==
    LET nz == {i \in 1 .. Len(b) : b[i] # 0}
    IN  IF nz = {} THEN << >>
        ELSE LET top == CHOOSE i \in nz : \A j \in nz : j <= i
             IN  [i \in 1 .. top |-> b[top + 1 - i]]

\* int.from_bytes(b, 'big'): any length is accepted, leading zeros vanish.
FromBytes(b) ==
    LET nz == {i \in 1 .. Len(b) : b[i] # 0}
    IN  IF nz = {} THEN << >>
        ELSE SubSeq(b, CHOOSE i \in nz : \A j \in nz : i <= j, Len(b))

\* ------------------------------------------------------------- JSON
\* Values a caller passes to command().
Values == {"G2"}
\* Retain flags a caller passes to command() (True is the default).
Retains == {TRUE}
\* Paths a caller passes to command().
Paths == {"afe/0"}

\* json.dumps(value) of a string value: the quoted text.
JsonDumps(v) ==
    CASE v = "G2" -> "\"G2\""

\* The response of a device that accepted the setting.
OkPayload == "{\"code\": 0}"

\* Payloads of inbound messages: two decodable responses and one that is
\* not JSON.
ResponsePayloads == {OkPayload, "{\"code\": 1}", "not json"}

\* The value of a future that holds no result.
NoResult == [code |-> -1]

\* (variant) a decoder that yields a value for any text
JsonLoadsLenient(p) ==
    CASE p = OkPayload -> [ok |-> TRUE, val |-> [code |-> 0]]
      [] p = "{\"code\": 1}" -> [ok |-> TRUE, val |-> [code |-> 1]]
      [] OTHER -> [ok |-> TRUE, val |-> NoResult]

\* json.loads(payload): ok is FALSE when it raises json.JSONDecodeError.
JsonLoads(p) ==
    CASE p = OkPayload -> [ok |-> TRUE, val |-> [code |-> 0]]
      [] p = "{\"code\": 1}" -> [ok |-> TRUE, val |-> [code |-> 1]]
      [] OTHER -> [ok |-> FALSE, val |-> NoResult]

\* ----------------------------------------------------------- registry
\* self.inflight = {}
EmptyRegistry == [x \in {} |-> 0]

\* (variant) self.inflight = {request_id: fut}
RegisterReplacing(reg, id, fut) == [x \in {id} |-> fut]

\* self.inflight[request_id] = fut
Register(reg, id, fut) ==
    [x \in DOMAIN reg \cup {id} |-> IF x = id THEN fut ELSE reg[x]]

\* (variant) the entry is kept
DeleteNothing(reg, id) == reg

\* (variant) self.inflight.clear()
DeleteAll(reg, id) == [x \in {} |-> 0]

\* del self.inflight[request_id]
Delete(reg, id) == [x \in DOMAIN reg \ {id} |-> reg[x]]

\* (variant) the future of some entry, whatever its key
LookupAny(reg, id) == reg[CHOOSE x \in DOMAIN reg : \A y \in DOMAIN reg : Len(x) < Len(y) \/ (Len(x) = Len(y) /\ \A i \in 1 .. Len(x) : x[i] <= y[i])]

\* self.inflight[request_id], for a key that is present
Lookup(reg, id) == reg[id]

\* ---------------------------------------------------- statement order
\* (variant) publish issued before the future is registered
AfterPublishFirst(stmt) ==
    CASE stmt = "alloc" -> "encode"
      [] stmt = "encode" -> "publish"
      [] stmt = "publish" -> "register"
      [] stmt = "register" -> "await"

\* The statement of command() that follows `stmt` when it does not raise:
\* allocate (78-80), encode (82-85), register (86-88), publish (89-91),
\* await (92).
After(stmt) ==
    CASE stmt = "alloc" -> "encode"
      [] stmt = "encode" -> "register"
      [] stmt = "register" -> "publish"
      [] stmt = "publish" -> "await"

\* ------------------------------------------------------------ messages
\* Correlation data of inbound messages that answer no request: a well-formed
\* identifier, a 1-byte value and a 5-byte value.
SpuriousCorrelationData == {<<0, 0, 0, 1>>}
MalformedCorrelationData == {<<1>>, <<0, 0, 0, 0, 0>>}

\* An inbound message as _handle_response receives it: the topic it was
\* published to, the payload and the 'correlation_data' property (a list
\* whose first element is the bytes), which the properties may lack.
Message(topic, payload, has, cd) ==
    [topic |-> topic, payload |-> payload, has_correlation_data |-> has,
     correlation_data |-> cd]

NoMessage == Message(<< >>, "", FALSE, << >>)

\* The outcome of the _handle_response invocation made by the last step.
NoCall == [called |-> FALSE, msg |-> NoMessage, known |-> FALSE, exc |-> ""]

VARIABLES
    uuid,        \* self.uuid
    prefix,      \* self.prefix
    request_id,  \* self.request_id
    inflight,    \* self.inflight: request id -> future (named by its call)
    connected,   \* whether self.client still has its broker connection
    published,   \* the self.client.publish calls made so far, in order
    calls,       \* one record per command() call: its arguments, locals,
                 \* position, future, and what it returned or raised
    running,     \* the call whose coroutine holds the event loop, or 0
    handled,     \* outcome of the last step's _handle_response, or NoCall
    cli          \* main.configure_settings: position, loop index, exit status

vars == <<uuid, prefix, request_id, inflight, connected, published, calls,
          running, handled, cli>>

\* Session identities uuid.uuid1() may return (one per concurrent session of
\* the device), and device prefixes.
Uuids == {"u1", "u2"}
Prefixes == {"dt/dev"}

\* (variant) a subscription to the response topics of every session
SubscriptionWild == <<prefix, "response", "#">>

\* The topic filter the constructor subscribes to (line 43).
Subscription == <<prefix, "response", uuid>>

\* The response topics of the sessions that control the device: responses
\* are published to the response_topic named by the request they answer.
ResponseTopics == {<<prefix, "response", u>> : u \in Uuids}

\* MQTT: the broker delivers a message to a subscriber whose topic filter
\* matches the message's topic level by level ("#" matches any level).
Matches(filter, topic) ==
    /\ Len(filter) = Len(topic)
    /\ \A i \in 1 .. Len(filter) : filter[i] = topic[i] \/ filter[i] = "#"

\* The state of a call before it has run any statement.
NewCall(t, path, value, retain) ==
    [task |-> t, path |-> path, value |-> value, retain |-> retain,
     setting_topic |-> <<prefix, "settings", path>>,
     response_topic |-> <<prefix, "response", uuid>>,
     pc |-> "alloc", request_id |-> Zero, correlation_data |-> << >>,
     payload |-> "", fut |-> "none", result |-> NoResult,
     response |-> NoMessage, ret |-> NoResult, exc |-> ""]

Active(k) == calls[k].pc \notin {"done", "failed"}

\* Miniconf.__init__ with the counter at `start`.
InitAt(start) ==
    /\ uuid \in Uuids
    /\ prefix \in Prefixes
    /\ request_id = start
    /\ inflight = EmptyRegistry
    /\ connected = TRUE
    /\ published = << >>
    /\ calls = << >>
    /\ running = 0
    /\ handled = NoCall
    /\ cli = [pc |-> "loop", i |-> 1, status |-> 0]

Init == InitAt(InitialRequestId)

\* A task calls command(path, value, retain): the coroutine starts and
\* builds its two topics (lines 74-75).  A task awaits its call, so it has
\* at most one call in progress.
Call(t, path, value, retain) ==
    /\ running = 0
    /\ Len(calls) < MaxCalls
    /\ \A k \in 1 .. Len(calls) : calls[k].task = t => ~Active(k)
    /\ calls' = Append(calls, NewCall(t, path, value, retain))
    /\ running' = Len(calls) + 1
    /\ handled' = NoCall
    /\ UNCHANGED <<uuid, prefix, request_id, inflight, connected, published>>

\* Lines 78-80: take the counter, advance it, assert the id is not in flight.
Allocate(k) ==
    /\ running = k
    /\ calls[k].pc = "alloc"
    /\ request_id' = Inc(request_id)
    /\ IF request_id \in DOMAIN inflight
       THEN /\ calls' = [calls EXCEPT ![k].request_id = request_id,
                                      ![k].pc = "failed",
                                      ![k].exc = "AssertionError"]
            /\ running' = 0
       ELSE /\ calls' = [calls EXCEPT ![k].request_id = request_id,
                                      ![k].pc = After("alloc")]
            /\ running' = k
    /\ handled' = NoCall
    /\ UNCHANGED <<uuid, prefix, inflight, connected, published>>

\* Lines 82-85: the correlation bytes and the JSON text of the value.
Encode(k) ==
    /\ running = k
    /\ calls[k].pc = "encode"
    /\ IF ~Fits(calls[k].request_id, CorrelationLen)
       THEN /\ calls' = [calls EXCEPT ![k].pc = "failed",
                                      ![k].exc = "OverflowError"]
            /\ running' = 0
       ELSE /\ calls' = [calls EXCEPT
                  ![k].correlation_data =
                      ToBytes(calls[k].request_id, CorrelationLen),
                  ![k].payload = JsonDumps(calls[k].value),
                  ![k].pc = After("encode")]
            /\ running' = k
    /\ handled' = NoCall
    /\ UNCHANGED <<uuid, prefix, request_id, inflight, connected, published>>

\* Lines 86-88: create the future and store it under the request id.
RegisterFuture(k) ==
    /\ running = k
    /\ calls[k].pc = "register"
    /\ inflight' = Register(inflight, calls[k].request_id, k)
    /\ calls' = [calls EXCEPT ![k].fut = "PENDING",
                              ![k].pc = After("register")]
    /\ handled' = NoCall
    /\ UNCHANGED <<uuid, prefix, request_id, connected, published, running>>

\* Lines 89-91: self.client.publish(...).
Publish(k) ==
    /\ running = k
    /\ calls[k].pc = "publish"
    /\ published' = Append(published,
          [topic |-> calls[k].setting_topic,
           payload |-> calls[k].payload,
           qos |-> 0,
           retain |-> calls[k].retain,
           response_topic |-> calls[k].response_topic,
           correlation_data |-> calls[k].correlation_data])
    /\ calls' = [calls EXCEPT ![k].pc = After("publish")]
    /\ handled' = NoCall
    /\ UNCHANGED <<uuid, prefix, request_id, inflight, connected, running>>

\* (variant) a wait that keeps the event loop: the caller blocks on the
\* future instead of suspending
AwaitBlocking(k) ==
    /\ running = k
    /\ calls[k].pc = "await"
    /\ calls[k].fut = "PENDING"
    /\ calls' = [calls EXCEPT ![k].pc = "waiting"]
    /\ running' = k
    /\ handled' = NoCall
    /\ UNCHANGED <<uuid, prefix, request_id, inflight, connected, published>>

\* Line 92: await fut.  The future is pending, so the coroutine suspends and
\* the event loop is free again.
Await(k) ==
    /\ running = k
    /\ calls[k].pc = "await"
    /\ calls[k].fut = "PENDING"
    /\ calls' = [calls EXCEPT ![k].pc = "waiting"]
    /\ running' = 0
    /\ handled' = NoCall
    /\ UNCHANGED <<uuid, prefix, request_id, inflight, connected, published>>

\* Line 92: the event loop resumes the coroutine once its future is done,
\* and command() returns the future's result.
Return(k) ==
    /\ running = 0
    /\ calls[k].pc = "waiting"
    /\ calls[k].fut = "FINISHED"
    /\ calls' = [calls EXCEPT ![k].pc = "done", ![k].ret = calls[k].result]
    /\ handled' = NoCall
    /\ UNCHANGED <<uuid, prefix, request_id, inflight, connected, published,
                   running>>

\* (variant) set_result that stores nothing
SetResultLost(cs, f, value, msg) == cs

\* fut.set_result(value) on a pending future; msg is the message it came from.
SetResult(cs, f, value, msg) ==
    [cs EXCEPT ![f].fut = "FINISHED", ![f].result = value, ![f].response = msg]

\* The messages published to topic t that may reach a subscriber: the
\* correlation data of any request published so far echoed back, or spurious
\* data, with any payload; and decodable messages with malformed or no
\* correlation data.
MessagesOn(t) ==
    {Message(t, p, TRUE, cd) :
        p \in ResponsePayloads,
        cd \in SpuriousCorrelationData
               \cup {published[i].correlation_data : i \in 1 .. Len(published)}}
    \cup {Message(t, OkPayload, TRUE, cd) : cd \in MalformedCorrelationData}
    \cup {Message(t, OkPayload, FALSE, << >>)}

\* The messages the transport may hand to the handler: those published to a
\* response topic that the session's subscription matches.
Inbound ==
    UNION {MessagesOn(t) : t \in {r \in ResponseTopics : Matches(Subscription, r)}}

\* _handle_response(_client, _topic, payload, _qos, properties), lines 56-60.
\* Evaluation order of line 59: self.inflight[request_id], then
\* json.loads(payload), then set_result.
HandleResponse(m) ==
    /\ running = 0
    /\ connected
    /\ LET id == FromBytes(m.correlation_data)
           known == m.has_correlation_data /\ id \in DOMAIN inflight
           loaded == JsonLoads(m.payload)
           Raise(e) ==
               /\ handled' = [called |-> TRUE, msg |-> m, known |-> known,
                              exc |-> e]
               /\ UNCHANGED <<inflight, calls>>
       IN  IF ~m.has_correlation_data THEN Raise("KeyError")
           ELSE IF id \notin DOMAIN inflight THEN Raise("KeyError")
           ELSE IF ~loaded.ok THEN Raise("JSONDecodeError")
           ELSE IF calls[Lookup(inflight, id)].fut # "PENDING"
                THEN Raise("InvalidStateError")
           ELSE /\ calls' = SetResult(calls, Lookup(inflight, id),
                                      loaded.val, m)
                /\ inflight' = Delete(inflight, id)
                /\ handled' = [called |-> TRUE, msg |-> m, known |-> known,
                               exc |-> ""]
    /\ UNCHANGED <<uuid, prefix, request_id, connected, published, running>>

\* The transport loses its connection.  The constructor installs on_message
\* only (line 42), so nothing of the session reacts.
Disconnect ==
    /\ running = 0
    /\ connected
    /\ connected' = FALSE
    /\ handled' = NoCall
    /\ UNCHANGED <<uuid, prefix, request_id, inflight, published, calls,
                   running>>

Next ==
    \/ \E t \in Tasks, path \in Paths, value \in Values, retain \in Retains :
           Call(t, path, value, retain) /\ UNCHANGED cli
    \/ \E k \in 1 .. Len(calls) : Allocate(k) /\ UNCHANGED cli
    \/ \E k \in 1 .. Len(calls) : Encode(k) /\ UNCHANGED cli
    \/ \E k \in 1 .. Len(calls) : RegisterFuture(k) /\ UNCHANGED cli
    \/ \E k \in 1 .. Len(calls) : Publish(k) /\ UNCHANGED cli
    \/ \E k \in 1 .. Len(calls) : Await(k) /\ UNCHANGED cli
    \/ \E k \in 1 .. Len(calls) : Return(k) /\ UNCHANGED cli
    \/ \E m \in Inbound : HandleResponse(m) /\ UNCHANGED cli
    \/ Disconnect /\ UNCHANGED cli

Spec == Init /\ [][Next]_vars

\* The coroutine of call k runs on to its next statement; the event loop
\* resumes it once its future is done.
Run(k) ==
    /\ k \in 1 .. Len(calls)
    /\ \/ Allocate(k) \/ Encode(k) \/ RegisterFuture(k) \/ Publish(k)
       \/ Await(k) \/ Return(k)
    /\ UNCHANGED cli

\* The event loop keeps running every coroutine that can run.
FairSpec == Spec /\ \A k \in 1 .. MaxCalls : WF_vars(Run(k))

\* A session on which 2^32 - 1 commands have completed: the counter holds
\* 2^32 - 1 and nothing is in flight.
WrapStart == <<ByteMax, ByteMax, ByteMax, ByteMax>>

SpecWrap == InitAt(WrapStart) /\ [][Next]_vars

\* The caller of command() cancels the task that is suspended at line 92
\* (task.cancel(), or asyncio.wait_for timing out): the awaited future is
\* cancelled and CancelledError is raised out of command(), which has no
\* handler around the await, so nothing else of the session changes.
Cancel(k) ==
    /\ running = 0
    /\ calls[k].pc = "waiting"
    /\ calls[k].fut = "PENDING"
    /\ calls' = [calls EXCEPT ![k].fut = "CANCELLED",
                              ![k].pc = "failed",
                              ![k].exc = "CancelledError"]
    /\ handled' = NoCall
    /\ UNCHANGED <<uuid, prefix, request_id, inflight, connected, published,
                   running>>

NextCancel ==
    \/ Next
    \/ \E k \in 1 .. Len(calls) : Cancel(k) /\ UNCHANGED cli

\* The session with callers that may cancel their wait.
SpecCancel == Init /\ [][NextCancel]_vars

\* ------------------------------------------------------------- claims
RECURSIVE IntOf(_)
\* The number a big-endian byte sequence denotes.
IntOf(b) ==
    IF b = << >> THEN 0
    ELSE IntOf(SubSeq(b, 1, Len(b) - 1)) * (ByteMax + 1) + b[Len(b)]

CallIds == 1 .. Len(calls)
InFlight(k) == calls[k].fut = "PENDING"
HasEntry(reg, k) == \E id \in DOMAIN reg : reg[id] = k
WellFormed(m) ==
    m.has_correlation_data /\ Len(m.correlation_data) = CorrelationLen
\* The last step delivered to the handler a well-formed message carrying the
\* identifier of call k while k was suspended in its await.
DeliveredTo(k, m) ==
    /\ k \in CallIds
    /\ handled.called
    /\ handled.msg = m
    /\ WellFormed(m)
    /\ calls[k].pc = "waiting"
    /\ IntOf(m.correlation_data) = IntOf(calls[k].request_id)

\* C1: every command() that has returned was resolved by a message whose
\* correlation identifier equals the identifier the call allocated, and the
\* value it returned is the decoded payload of that message.
NoCrossTalk ==
    \A k \in CallIds :
        calls[k].pc = "done" =>
            /\ calls[k].response.has_correlation_data
            /\ IntOf(calls[k].response.correlation_data)
                   = IntOf(calls[k].request_id)
            /\ JsonLoads(calls[k].response.payload).ok
            /\ calls[k].ret = JsonLoads(calls[k].response.payload).val

\* Two commands were in flight together; the second has already returned
\* and the response of the first is delivered last, with another payload.
NoCrossTalkWitness ==
    /\ Len(calls) = 2
    /\ calls[2].pc = "done"
    /\ DeliveredTo(1, handled.msg)
    /\ handled.exc = ""
    /\ calls[1].fut = "FINISHED"
    /\ calls[1].result # calls[2].ret

\* C2: the step that issues a publish finds the identifier it carries already
\* in the registry, mapped to the publishing call's future; and in every
\* state every published request has been registered.
RegisterBeforePublish ==
    /\ [][\A k \in CallIds :
            Len(published') > Len(published) /\ calls[k].pc = "publish"
                /\ running = k
            => /\ calls[k].request_id \in DOMAIN inflight
               /\ inflight[calls[k].request_id] = k]_vars
    /\ [](\A i \in 1 .. Len(published) :
            \E k \in CallIds :
                /\ calls[k].correlation_data = published[i].correlation_data
                /\ calls[k].fut # "none")

\* A response to a published request was delivered and found its entry.
RegisterBeforePublishWitness ==
    /\ handled.called
    /\ handled.known
    /\ handled.exc = ""
    /\ \E i \in 1 .. Len(published) :
           published[i].correlation_data = handled.msg.correlation_data

\* C3: the k-th call of a fresh session allocates identifier k - 1, so the
\* identifiers of all calls are distinct, and every call in flight has a
\* registry entry holding its own future.
DistinctIdentifiers ==
    /\ \A k \in CallIds :
           calls[k].pc # "alloc" => IntOf(calls[k].request_id) = k - 1
    /\ \A j, k \in CallIds :
           j # k /\ calls[j].pc # "alloc" /\ calls[k].pc # "alloc"
               => calls[j].request_id # calls[k].request_id
    /\ \A k \in CallIds :
           calls[k].pc = "waiting" /\ InFlight(k)
               => inflight[calls[k].request_id] = k

\* Two concurrent calls hold 0 and 1; the second completed first.
DistinctIdentifiersWitness ==
    /\ Len(calls) = 2
    /\ calls[1].request_id = Zero
    /\ calls[1].pc = "waiting"
    /\ IntOf(calls[2].request_id) = 1
    /\ calls[2].pc = "done"

\* C4: no two requests in flight share an identifier, the registry keys are
\* exactly in one-to-one correspondence with the requests in flight, and no
\* step replaces the future stored under a key that stays in the registry.
InFlightUnique ==
    /\ [](/\ \A j, k \in CallIds :
                j # k /\ InFlight(j) /\ InFlight(k)
                    => calls[j].request_id # calls[k].request_id
          /\ \A k \in CallIds :
                InFlight(k) =>
                    /\ calls[k].request_id \in DOMAIN inflight
                    /\ inflight[calls[k].request_id] = k
          /\ \A id \in DOMAIN inflight :
                /\ inflight[id] \in CallIds
                /\ InFlight(inflight[id])
                /\ calls[inflight[id]].request_id = id)
    /\ [][\A id \in DOMAIN inflight :
            id \in DOMAIN inflight' => inflight'[id] = inflight[id]]_vars

\* Two requests are in flight at once.
InFlightUniqueWitness ==
    /\ Cardinality(DOMAIN inflight) = 2
    /\ running = 0

\* C5 (as claimed): a well-formed message whose identifier is not in the
\* registry makes the handler return without raising, and leaves the
\* registry and every future as they were.
UnknownResponseSilent ==
    handled.called /\ WellFormed(handled.msg) /\ ~handled.known
        => handled.exc = ""

\* C6: a finished future keeps its result; a future is resolved in exactly
\* the step that removes its registry entry; a removed entry never comes
\* back; a message whose identifier is not registered changes neither any
\* future nor the registry.
ExactlyOnceCompletion ==
    [][/\ \A k \in CallIds :
            /\ calls[k].fut = "FINISHED"
                   => /\ calls'[k].fut = "FINISHED"
                      /\ calls'[k].result = calls[k].result
            /\ (calls[k].fut = "PENDING" /\ calls'[k].fut = "FINISHED")
                   <=> (HasEntry(inflight, k) /\ ~HasEntry(inflight', k))
            /\ calls[k].fut # "none" /\ ~HasEntry(inflight, k)
                   => ~HasEntry(inflight', k)
            /\ calls[k].pc = "done"
                   => calls'[k].ret = calls[k].ret
       /\ handled'.called /\ ~handled'.known
            => inflight' = inflight /\ calls' = calls]_vars

\* A second response arrived for an identifier already resolved.
ExactlyOnceCompletionWitness ==
    /\ handled.called
    /\ WellFormed(handled.msg)
    /\ ~handled.known
    /\ \E k \in CallIds :
           /\ calls[k].fut = "FINISHED"
           /\ IntOf(calls[k].request_id) = IntOf(handled.msg.correlation_data)
           /\ calls[k].result # JsonLoads(handled.msg.payload).val
           /\ JsonLoads(handled.msg.payload).ok

\* C7 (as claimed): whenever a well-formed decodable response carrying the
\* identifier of a published, waiting call is delivered, the call eventually
\* returns the decoded payload of that response.  (Only calls that no
\* malformed message has resolved are considered.)
ResponseLivenessAnyResponse ==
    \A k \in 1 .. MaxCalls : \A p \in ResponsePayloads :
        (DeliveredTo(k, handled.msg) /\ handled.msg.payload = p
             /\ JsonLoads(p).ok
             /\ (calls[k].fut = "FINISHED" => WellFormed(calls[k].response)))
        ~> (k \in CallIds /\ calls[k].pc = "done"
                /\ calls[k].ret = JsonLoads(p).val)

\* C7 (amended): whenever a well-formed decodable response carrying the
\* identifier of a published, waiting call is delivered while that
\* identifier is still registered (the first such response), the call
\* eventually returns the decoded payload of that response.
ResponseLiveness ==
    \A k \in 1 .. MaxCalls : \A p \in ResponsePayloads :
        (DeliveredTo(k, handled.msg) /\ handled.msg.payload = p
             /\ JsonLoads(p).ok /\ handled.known)
        ~> (k \in CallIds /\ calls[k].pc = "done"
                /\ calls[k].ret = JsonLoads(p).val)

\* The first decodable response of a waiting call has just been delivered.
ResponseLivenessWitness ==
    \E k \in CallIds :
        /\ DeliveredTo(k, handled.msg)
        /\ JsonLoads(handled.msg.payload).ok
        /\ handled.known
        /\ calls[k].fut = "FINISHED"

\* C8: the registry's keys are exactly the identifiers of the requests that
\* were registered and are not yet resolved; so once every registered
\* request is resolved the registry is empty.
RegistryDrains ==
    /\ DOMAIN inflight = {calls[k].request_id : k \in {j \in CallIds : InFlight(j)}}
    /\ (\A k \in CallIds : calls[k].fut # "PENDING") => DOMAIN inflight = {}

\* Two requests were registered, both are resolved, the registry is empty.
RegistryDrainsWitness ==
    /\ Len(calls) = 2
    /\ \A k \in CallIds : calls[k].fut = "FINISHED"
    /\ DOMAIN inflight = {}

\* C9 (as claimed): every allocated identifier fits the 4-byte correlation
\* field, the allocation after 2^32 - 1 returns 0, and encoding never fails.
IdentifierWraps ==
    \A k \in CallIds :
        calls[k].pc # "alloc" =>
            /\ Fits(calls[k].request_id, CorrelationLen)
            /\ calls[k].exc # "OverflowError"
            /\ (k > 1 /\ calls[k - 1].request_id = WrapStart)
                   => calls[k].request_id = Zero

\* C10 (as claimed): once the transport has disconnected no request is left
\* registered and no caller is left suspended.
TeardownCompletesPending ==
    ~connected =>
        /\ DOMAIN inflight = {}
        /\ \A k \in CallIds : calls[k].pc # "waiting" \/ calls[k].fut # "PENDING"

\* C11 (as claimed): no future is ever completed by a message whose
\* correlation data is absent or not exactly 4 bytes long, and such a
\* message leaves the handler without an error for any caller.
MalformedDiscarded ==
    /\ \A k \in CallIds :
           calls[k].fut = "FINISHED" => WellFormed(calls[k].response)
    /\ handled.called /\ ~WellFormed(handled.msg) => ~handled.known

\* ------------------------------------------------- command-line interface
\* Number of KEY=VALUE settings given on the command line (nargs='+').
NumSettings == 2

\* args.settings: the KEY=VALUE arguments, in order.
ArgSettings ==
    [i \in 1 .. NumSettings |->
        CASE i = 1 -> "afe/0=\"G2\""
          [] i = 2 -> "afe/1=\"G2\""
          [] OTHER -> "iir_ch/0/0=\"G2\""]

\* key_value.split("=", 1) and json.loads(value), lines 127-128.
ParseSetting(key_value) ==
    CASE key_value = "afe/0=\"G2\"" -> [path |-> "afe/0", value |-> "G2"]
      [] key_value = "afe/1=\"G2\"" -> [path |-> "afe/1", value |-> "G2"]
      [] key_value = "iir_ch/0/0=\"G2\""
             -> [path |-> "iir_ch/0/0", value |-> "G2"]

\* args.no_retain (default False).
ArgNoRetain == FALSE

\* The task that runs configure_settings.
CliTask == 1

\* (variant) no response counts as a failure
FailingNever(response) == FALSE

\* response['code'] != 0, line 131.
Failing(response) == response.code # 0

\* Lines 126-129: the loop body issues command() for setting cli.i and awaits
\* it.
CliCommand ==
    /\ cli.pc = "loop"
    /\ Call(CliTask, ParseSetting(ArgSettings[cli.i]).path,
            ParseSetting(ArgSettings[cli.i]).value, ~ArgNoRetain)
    /\ cli' = [cli EXCEPT !.pc = "awaiting"]

\* Lines 130-133: the awaited command() has returned (or raised); return its
\* code when it is not 0, return 0 after the last setting, else loop on.
CliCheck ==
    /\ cli.pc = "awaiting"
    /\ running = 0
    /\ ~Active(Len(calls))
    /\ LET k == Len(calls)
       IN  cli' = IF calls[k].pc = "failed"
                      THEN [cli EXCEPT !.pc = "raised", !.status = 1]
                  ELSE IF Failing(calls[k].ret)
                      THEN [cli EXCEPT !.pc = "exited",
                                       !.status = calls[k].ret.code]
                  ELSE IF cli.i = Len(ArgSettings)
                      THEN [cli EXCEPT !.pc = "exited", !.status = 0]
                  ELSE [cli EXCEPT !.pc = "loop", !.i = cli.i + 1]
    /\ handled' = NoCall
    /\ UNCHANGED <<uuid, prefix, request_id, inflight, connected, published,
                   calls, running>>

\* The program main(): configure_settings is the only caller of command().
NextCli ==
    \/ CliCommand
    \/ CliCheck
    \/ \E k \in 1 .. Len(calls) : Allocate(k) /\ UNCHANGED cli
    \/ \E k \in 1 .. Len(calls) : Encode(k) /\ UNCHANGED cli
    \/ \E k \in 1 .. Len(calls) : RegisterFuture(k) /\ UNCHANGED cli
    \/ \E k \in 1 .. Len(calls) : Publish(k) /\ UNCHANGED cli
    \/ \E k \in 1 .. Len(calls) : Await(k) /\ UNCHANGED cli
    \/ \E k \in 1 .. Len(calls) : Return(k) /\ UNCHANGED cli
    \/ \E m \in Inbound : HandleResponse(m) /\ UNCHANGED cli
    \/ Disconnect /\ UNCHANGED cli

SpecCli == Init /\ [][NextCli]_vars

\* C12: the command line has at most one request in flight, publishes the
\* settings in argument order, publishes a setting only after every earlier
\* one has returned a response with status 0, publishes nothing after it
\* has exited, and exits with the nonzero status of the last response or
\* with 0 after all settings have returned status 0; a response with a
\* nonzero status is returned by command() as its result, without error.
CliSequencing ==
    /\ [](/\ Cardinality(DOMAIN inflight) <= 1
          /\ Cardinality({k \in CallIds : Active(k)}) <= 1
          /\ \A i \in 1 .. Len(published) :
                /\ i <= Len(ArgSettings)
                /\ published[i].topic
                       = <<prefix, "settings", ParseSetting(ArgSettings[i]).path>>
          /\ \A k \in CallIds :
                k < Len(calls) =>
                    /\ calls[k].pc = "done"
                    /\ calls[k].ret.code = 0
                    /\ calls[k].exc = ""
          /\ cli.pc = "exited" =>
                /\ Len(calls) >= 1
                /\ calls[Len(calls)].pc = "done"
                /\ calls[Len(calls)].exc = ""
                /\ cli.status = calls[Len(calls)].ret.code
                /\ cli.status = 0 => Len(calls) = Len(ArgSettings))
    /\ [][cli.pc = "exited" => published' = published /\ cli' = cli]_vars

\* The first response has status 1: the command line has exited with 1 and
\* the second setting was never published.
CliSequencingWitness ==
    /\ cli.pc = "exited"
    /\ cli.status = 1
    /\ Len(published) = 1
    /\ Len(ArgSettings) > 1

\* ------------------------------------------------------ correlation codec
\* Counter values of sessions of different ages: a fresh one, one about to
\* carry into a second byte, and one at the last 4-byte identifier.
SampleRequestIds == {Zero, <<ByteMax>>, WrapStart}

\* Sessions whose counter stands at one of the sample values.
SpecCodec == (\E start \in SampleRequestIds : InitAt(start)) /\ [][Next]_vars

\* b is the 4-byte big-endian form of the digits n: zeros, then n.
BigEndianOf(b, n) ==
    /\ Len(b) = CorrelationLen
    /\ Len(n) <= CorrelationLen
    /\ \A i \in 1 .. CorrelationLen :
           b[i] = IF i <= CorrelationLen - Len(n) THEN 0
                  ELSE n[i - (CorrelationLen - Len(n))]

\* C13: the correlation data of every call is its identifier as exactly 4
\* bytes big-endian; decoding it yields the identifier and encoding the
\* decoded value yields the same bytes; and a message that echoes the bytes
\* of a call in flight makes the handler find that call's entry.
CorrelationRoundTrip ==
    /\ \A k \in CallIds :
           calls[k].correlation_data # << >> =>
               /\ BigEndianOf(calls[k].correlation_data, calls[k].request_id)
               /\ FromBytes(calls[k].correlation_data) = calls[k].request_id
               /\ ToBytes(FromBytes(calls[k].correlation_data), CorrelationLen)
                      = calls[k].correlation_data
    /\ \A k \in CallIds :
           /\ handled.called
           /\ handled.msg.has_correlation_data
           /\ handled.msg.correlation_data = calls[k].correlation_data
           /\ calls[k].pc = "waiting"
           => IF calls[k].fut = "PENDING"
              THEN handled.known /\ handled.exc = "JSONDecodeError"
              ELSE handled.known => calls[k].response = handled.msg

\* The call with identifier 2^32 - 1 was completed by the echo of its bytes
\* ff ff ff ff.
CorrelationRoundTripWitness ==
    \E k \in CallIds :
        /\ calls[k].request_id = WrapStart
        /\ calls[k].correlation_data = <<ByteMax, ByteMax, ByteMax, ByteMax>>
        /\ calls[k].fut = "FINISHED"
        /\ handled.called
        /\ handled.known
        /\ handled.msg.correlation_data = calls[k].correlation_data

\* C14 (precondition): the identifier about to be allocated is never in the
\* registry, so the assertion of line 80 never fails: the counter only grows
\* and every key of the registry was allocated before.
AllocationAlwaysFresh == request_id \notin DOMAIN inflight

\* C15: a message whose payload does not decode changes neither the
\* registry nor any call; when it carries the identifier of a pending
\* request, that request is still registered and its caller still suspended
\* afterwards; and a decodable message that finds its identifier registered
\* completes the pending call of that identifier with the decoded value.
DecodeFailureKeepsPending ==
    /\ [][handled'.called /\ handled'.msg.payload = "not json"
            => inflight' = inflight /\ calls' = calls]_vars
    /\ [](handled.called /\ handled.known /\ handled.msg.payload = "not json"
            => \E k \in CallIds :
                   /\ IntOf(handled.msg.correlation_data)
                          = IntOf(calls[k].request_id)
                   /\ calls[k].pc = "waiting"
                   /\ calls[k].fut = "PENDING"
                   /\ calls[k].request_id \in DOMAIN inflight
                   /\ inflight[calls[k].request_id] = k)
    /\ [][handled'.called /\ handled'.known
              /\ handled'.msg.payload \in {OkPayload, "{\"code\": 1}"}
            => \E k \in CallIds :
                   /\ IntOf(handled'.msg.correlation_data)
                          = IntOf(calls[k].request_id)
                   /\ calls[k].fut = "PENDING"
                   /\ calls'[k].fut = "FINISHED"
                   /\ calls'[k].result.code
                          = (IF handled'.msg.payload = OkPayload THEN 0 ELSE 1)
                   /\ \A j \in CallIds \ {k} : calls'[j] = calls[j]]_vars

\* An undecodable response of a waiting call has just been delivered while
\* another call is in flight too.
DecodeFailureKeepsPendingWitness ==
    /\ handled.called
    /\ handled.known
    /\ handled.exc = "JSONDecodeError"
    /\ Cardinality(DOMAIN inflight) = 2

\* C16: while a call is suspended on a pending future it does not hold the
\* event loop: a coroutine of another call that is running can take its
\* next step, and when none is running any free task can start a command,
\* the handler can process a response for any other pending identifier, and
\* any other call whose future is finished can return.
NonBlockingSuspension ==
    \A j \in CallIds :
        calls[j].pc = "waiting" /\ calls[j].fut = "PENDING" =>
            /\ running # j
            /\ running # 0 => ENABLED Run(running)
            /\ running = 0 =>
                /\ \A t \in Tasks :
                       /\ Len(calls) < MaxCalls
                       /\ \A k \in CallIds : calls[k].task = t => ~Active(k)
                       => ENABLED (Call(t, "afe/0", "G2", TRUE)
                                       /\ UNCHANGED cli)
                /\ \A k \in CallIds \ {j} :
                       /\ calls[k].pc = "waiting"
                       /\ calls[k].fut = "PENDING"
                       /\ connected
                       => ENABLED (HandleResponse(
                                       Message(Subscription, OkPayload, TRUE,
                                               calls[k].correlation_data))
                                       /\ calls'[k].fut = "FINISHED"
                                       /\ calls'[j] = calls[j]
                                       /\ UNCHANGED cli)
                /\ \A k \in CallIds \ {j} :
                       calls[k].pc = "waiting" /\ calls[k].fut = "FINISHED"
                       => ENABLED (Return(k) /\ UNCHANGED cli)

\* The first call is still suspended, its response has not arrived, and the
\* second call, issued later, has completed.
NonBlockingSuspensionWitness ==
    /\ Len(calls) = 2
    /\ calls[1].pc = "waiting"
    /\ calls[1].fut = "PENDING"
    /\ calls[2].pc = "done"
    /\ Len(published) = 2

\* A handler invocation that completed the request registered under id:
\* the last step handed _handle_response a message whose correlation data
\* decodes to id, and the handler ran to its end.
ResolvedByHandler(h, id) ==
    /\ h.called
    /\ h.known
    /\ h.exc = ""
    /\ h.msg.has_correlation_data
    /\ FromBytes(h.msg.correlation_data) = id

\* C17: a registry entry is removed, and its future completed, only by a
\* handler step for a message carrying that identifier; every other step
\* (another command's statements, a response for another identifier, a
\* failing handler, a disconnect) keeps the entry and leaves a caller
\* suspended on it exactly as it was.
NoTimeout ==
    [][\A id \in DOMAIN inflight :
           LET k == inflight[id]
           IN  /\ id \notin DOMAIN inflight' => ResolvedByHandler(handled', id)
               /\ calls[k].fut # calls'[k].fut => ResolvedByHandler(handled', id)
               /\ ~ResolvedByHandler(handled', id) =>
                      /\ id \in DOMAIN inflight'
                      /\ inflight'[id] = k
                      /\ calls[k].pc = "waiting" => calls'[k] = calls[k]]_vars

\* The handler has just completed one request while another caller is still
\* suspended on a pending future with its entry in the registry.
NoTimeoutWitness ==
    /\ handled.called
    /\ handled.exc = ""
    /\ \E id \in DOMAIN inflight :
           /\ id # FromBytes(handled.msg.correlation_data)
           /\ calls[inflight[id]].pc = "waiting"
           /\ calls[inflight[id]].fut = "PENDING"

\* The response topics of the other sessions that control the same device.
OtherSessionTopics == ResponseTopics \ {<<prefix, "response", uuid>>}

\* C18: the session identity never changes; every publish names as response
\* topic the topic subscribed to at construction; a message published to
\* another session's response topic is never handed to this session's
\* handler, so every handled message and every response that completed a
\* request arrived on this session's own topic, even when the other session
\* uses the same identifiers.
SessionIsolation ==
    /\ [][uuid' = uuid /\ prefix' = prefix]_vars
    /\ [](\A i \in 1 .. Len(published) :
              /\ published[i].response_topic = Subscription
              /\ published[i].response_topic = <<prefix, "response", uuid>>)
    /\ [](\A t \in OtherSessionTopics : MessagesOn(t) \cap Inbound = {})
    /\ [](handled.called => handled.msg.topic = <<prefix, "response", uuid>>)
    /\ [](\A k \in CallIds :
              calls[k].fut = "FINISHED" =>
                  calls[k].response.topic = calls[k].response_topic)

\* One request has been completed by a response on this session's topic
\* while another is pending, and a response carrying the pending request's
\* identifier exists on the other session's topic.
SessionIsolationWitness ==
    /\ \E k \in CallIds :
           /\ calls[k].fut = "FINISHED"
           /\ calls[k].response.topic = <<prefix, "response", uuid>>
    /\ \E j \in CallIds, t \in OtherSessionTopics :
           /\ calls[j].pc = "waiting"
           /\ calls[j].fut = "PENDING"
           /\ Message(t, OkPayload, TRUE, calls[j].correlation_data)
                  \in MessagesOn(t) \ Inbound

\* C19: every registry entry maps to a future that is still pending, and
\* every caller suspended on a pending future has its identifier in the
\* registry, also after a handler failure and after a caller cancelled its
\* wait.
RegistryEntriesPending ==
    /\ \A id \in DOMAIN inflight : calls[inflight[id]].fut = "PENDING"
    /\ \A k \in CallIds :
           calls[k].pc = "waiting" /\ calls[k].fut = "PENDING" =>
               /\ calls[k].request_id \in DOMAIN inflight
               /\ inflight[calls[k].request_id] = k

\* C20: the counter changes only in the allocation step of the running
\* command() call, which advances it by exactly one whatever the outcome of
\* the duplicate check; the counter equals the number of calls that have
\* allocated; only the publish step of a call appends to the published
\* messages, exactly one message carrying the identifier the call registered,
\* so a call that returned has exactly one publish; a handler invocation
\* changes neither the counter nor the published messages.
CounterFrame ==
    /\ [][/\ request_id' # request_id =>
                 /\ running \in CallIds
                 /\ calls[running].pc = "alloc"
                 /\ calls'[running].request_id = request_id
                 /\ ~handled'.called
          /\ \A k \in CallIds :
                 calls[k].pc = "alloc" /\ calls'[k].pc # "alloc" =>
                     IntOf(request_id') = IntOf(request_id) + 1
          /\ handled'.called =>
                 request_id' = request_id /\ published' = published
          /\ published' # published =>
                 /\ running \in CallIds
                 /\ calls[running].pc = "publish"
                 /\ published' = Append(published,
                                        published'[Len(published')])
                 /\ FromBytes(published'[Len(published')].correlation_data)
                        = calls[running].request_id
                 /\ HasEntry(inflight, running)
                 /\ inflight[calls[running].request_id] = running]_vars
    /\ [](IntOf(request_id)
              = Cardinality({k \in CallIds : calls[k].pc # "alloc"}))
    /\ [](\A k \in CallIds :
              calls[k].pc = "done" =>
                  Cardinality({i \in 1 .. Len(published) :
                      FromBytes(published[i].correlation_data)
                          = calls[k].request_id}) = 1)

\* Two commands have allocated and published, one has returned, and the
\* handler has just run on a message that matched no request.
CounterFrameWitness ==
    /\ IntOf(request_id) = 2
    /\ Len(published) = 2
    /\ \E k \in CallIds : calls[k].pc = "done"
    /\ handled.called
    /\ ~handled.known

====
